---- MODULE Spec2Model ----
(***************************************************************************)
(* A model of tv_episode_checker.py: the episode and movie classifiers,    *)
(* the tracking store (shows.json, movies.json), the check-all run with    *)
(* its single combined email, and the interactive menu operations.         *)
(*                                                                         *)
(* Text is modelled as a sequence of one-character strings, so that        *)
(* str.strip, str.lower and int() are computed and not assumed.  A date    *)
(* string "YYYY-MM-DD" is the tuple <<y, m, d>>, the empty string is <<>>, *)
(* and Python's None is the value None below.                              *)
(***************************************************************************)
EXTENDS Integers, Sequences, FiniteSets, TLC

VARIABLES
    shows,          \* content of shows.json: sequence of tracked shows
    movies,         \* content of movies.json: sequence of tracked movies
    today,          \* datetime.today().date(), as <<y, m, d>>
    tvmaze,         \* remote episode lists, by show
    tmdb,           \* remote movie search results and details
    EMAIL_CONFIG,   \* the three credentials read from the environment
    pc,             \* "menu" | "exited" | "crashed" (uncaught exception)
    last,           \* the operation that ran last and what it printed
    tv_data,        \* tv_data handed to send_combined_email
    movie_data,     \* movie_data handed to send_combined_email
    result          \* return value of a classifier called on its own

vars == <<shows, movies, today, tvmaze, tmdb, EMAIL_CONFIG, pc, last,
          tv_data, movie_data, result>>

None == <<"None">>

(***************************************************************************)
(* Bounds of the model.                                                    *)
(***************************************************************************)
MaxEps == 2         \* longest episode list drawn for the classifier
MaxMovies == 2      \* longest movie list drawn for a check-all run
FirstYear == 2023   \* release dates drawn for the movie classifier
LastYear == 2024

(***************************************************************************)
(* Text helpers: str.strip, str.lower, int().                              *)
(***************************************************************************)
RECURSIVE lstrip(_)
lstrip(s) ==
    IF s # <<>> /\ Head(s) = " " THEN lstrip(Tail(s)) ELSE s

RECURSIVE rstrip(_)
rstrip(s) ==
    IF s # <<>> /\ s[Len(s)] = " " THEN rstrip(SubSeq(s, 1, Len(s) - 1)) ELSE s

strip(s) == rstrip(lstrip(s))

LowerChar(c) ==
    CASE c = "A" -> "a"
      [] c = "B" -> "b"
      [] c = "C" -> "c"
      [] OTHER -> c

\* a comparison key that keeps the case
lower_identity(s) == s

lower(s) == [i \in 1..Len(s) |-> LowerChar(s[i])]

Digits == {"0", "1", "2", "3", "4", "5", "6", "7", "8", "9"}

DigitVal(c) ==
    CASE c = "0" -> 0 [] c = "1" -> 1 [] c = "2" -> 2 [] c = "3" -> 3
      [] c = "4" -> 4 [] c = "5" -> 5 [] c = "6" -> 6 [] c = "7" -> 7
      [] c = "8" -> 8 [] c = "9" -> 9

RECURSIVE DecimalValue(_)
DecimalValue(s) ==
    IF s = <<>> THEN 0
    ELSE 10 * DecimalValue(SubSeq(s, 1, Len(s) - 1)) + DigitVal(s[Len(s)])

AllDigits(s) == s # <<>> /\ \A i \in 1..Len(s) : s[i] \in Digits

\* int(text): surrounding whitespace is ignored, one optional sign, then
\* decimal digits; anything else raises ValueError (ok = FALSE).
ValueError == [ok |-> FALSE, val |-> 0]

int(text) ==
    LET s == strip(text)
        body == IF s # <<>> /\ Head(s) \in {"-", "+"} THEN Tail(s) ELSE s
    IN  IF AllDigits(body)
        THEN [ok |-> TRUE,
              val |-> IF Head(s) = "-" THEN 0 - DecimalValue(body)
                      ELSE DecimalValue(body)]
        ELSE ValueError

(***************************************************************************)
(* Dates: datetime.strptime(s, "%Y-%m-%d").date() and date subtraction.    *)
(***************************************************************************)
IsLeap(y) == (y % 4 = 0) /\ ((y % 100 # 0) \/ (y % 400 = 0))

DaysInMonth(y, m) ==
    CASE m \in {1, 3, 5, 7, 8, 10, 12} -> 31
      [] m \in {4, 6, 9, 11} -> 30
      [] OTHER -> IF IsLeap(y) THEN 29 ELSE 28

RECURSIVE DaysBeforeMonth(_, _)
DaysBeforeMonth(y, m) ==
    IF m = 1 THEN 0 ELSE DaysBeforeMonth(y, m - 1) + DaysInMonth(y, m - 1)

DaysBeforeYear(y) ==
    LET p == y - 1 IN 365 * p + (p \div 4) - (p \div 100) + (p \div 400)

\* the proleptic Gregorian ordinal of the date a date string parses to
ToOrdinal(d) == DaysBeforeYear(d[1]) + DaysBeforeMonth(d[1], d[2]) + d[3]

NextDay(d) ==
    IF d[3] < DaysInMonth(d[1], d[2]) THEN <<d[1], d[2], d[3] + 1>>
    ELSE IF d[2] < 12 THEN <<d[1], d[2] + 1, 1>>
    ELSE <<d[1] + 1, 1, 1>>

(***************************************************************************)
(* Episode classifier.                                                     *)
(***************************************************************************)
is_aired(airdate, day) ==
    IF airdate = None \/ airdate = <<>> THEN FALSE
    ELSE ToOrdinal(airdate) <= ToOrdinal(day)

\* a comparison that also takes the watch position itself
is_new_episode_ge(ep, show, day) ==
    /\ is_aired(ep.airdate, day)
    /\ \/ ep.season > show.last_season
       \/ ep.season = show.last_season /\ ep.number >= show.last_episode

\* the body of the loop of check_new_episodes: TRUE iff ep is appended
is_new_episode(ep, show, day) ==
    /\ is_aired(ep.airdate, day)
    /\ \/ ep.season > show.last_season
       \/ ep.season = show.last_season /\ ep.number > show.last_episode

RECURSIVE check_new_episodes(_, _, _)
check_new_episodes(show, episodes, day) ==
    IF episodes = <<>> THEN <<>>
    ELSE LET ep == episodes[Len(episodes)]
             before == check_new_episodes(show,
                           SubSeq(episodes, 1, Len(episodes) - 1), day)
         IN  IF is_new_episode(ep, show, day) THEN Append(before, ep)
             ELSE before

(***************************************************************************)
(* Movie status classifier.                                                *)
(***************************************************************************)
SoonDays == 30

\* a classifier whose "soon" ends a day early
check_movie_status_lt(details, day) ==
    IF details.release_date = None \/ details.release_date = <<>>
    THEN [status |-> "unknown", title |-> details.title]
    ELSE LET days_until == ToOrdinal(details.release_date) - ToOrdinal(day)
         IN  IF days_until < 0
             THEN [status |-> "released", title |-> details.title,
                   release_date |-> details.release_date,
                   days_ago |-> 0 - days_until]
             ELSE IF days_until = 0
             THEN [status |-> "today", title |-> details.title,
                   release_date |-> details.release_date]
             ELSE IF days_until < SoonDays
             THEN [status |-> "soon", title |-> details.title,
                   release_date |-> details.release_date,
                   days_until |-> days_until]
             ELSE [status |-> "future", title |-> details.title,
                   release_date |-> details.release_date,
                   days_until |-> days_until]

check_movie_status(details, day) ==
    IF details.release_date = None \/ details.release_date = <<>>
    THEN [status |-> "unknown", title |-> details.title]
    ELSE LET days_until == ToOrdinal(details.release_date) - ToOrdinal(day)
         IN  IF days_until < 0
             THEN [status |-> "released", title |-> details.title,
                   release_date |-> details.release_date,
                   days_ago |-> 0 - days_until]
             ELSE IF days_until = 0
             THEN [status |-> "today", title |-> details.title,
                   release_date |-> details.release_date]
             ELSE IF days_until <= SoonDays
             THEN [status |-> "soon", title |-> details.title,
                   release_date |-> details.release_date,
                   days_until |-> days_until]
             ELSE [status |-> "future", title |-> details.title,
                   release_date |-> details.release_date,
                   days_until |-> days_until]

(***************************************************************************)
(* Metadata gateway.  A lookup either answers from the remote data or      *)
(* raises (network error, non-success HTTP status).                        *)
(***************************************************************************)
\* get_show_id: the search is by name, ignoring case
get_show_id(show_name) == lower(show_name)

get_episodes(show_id) == tvmaze[show_id]

\* TRUE iff get_show_id / get_episodes raise for this show
ShowLookupRaises(show, failShows) ==
    show.name \in failShows \/ get_show_id(show.name) \notin DOMAIN tvmaze

\* search_movie: the first result, or 0 for None (no results)
search_movie(title) ==
    IF title \in DOMAIN tmdb.search THEN tmdb.search[title] ELSE 0

get_movie_details(movie_id) == tmdb.details[movie_id]

MovieLookupRaises(movie, failMovies) ==
    movie.tmdb_id \in failMovies \/ movie.tmdb_id \notin DOMAIN tmdb.details

(***************************************************************************)
(* Check-all: the two loops of check_all_and_email and the notifier.       *)
(***************************************************************************)
NoTvData == [new_episodes |-> <<>>, no_new_episodes |-> <<>>]

NoMovieData == [released |-> <<>>, today |-> <<>>, soon |-> <<>>, future |-> <<>>]

\* a loop that stops at the first lookup that raises
RECURSIVE check_shows_abort(_, _)
check_shows_abort(list, failShows) ==
    IF list = <<>> THEN NoTvData
    ELSE LET show == list[Len(list)]
             acc == check_shows_abort(SubSeq(list, 1, Len(list) - 1), failShows)
             raised == \E i \in 1..Len(list) - 1 : ShowLookupRaises(list[i], failShows)
         IN  IF raised \/ ShowLookupRaises(show, failShows) THEN acc
             ELSE LET new_eps == check_new_episodes(show,
                                     get_episodes(get_show_id(show.name)), today)
                  IN  IF new_eps # <<>>
                      THEN [acc EXCEPT !.new_episodes = (show.name :> new_eps) @@ @]
                      ELSE [acc EXCEPT !.no_new_episodes = Append(@, show.name)]

\* the loop over shows (lines 231-243): the dictionary tv_new_episodes is a
\* function from show names, the list tv_no_new a sequence
RECURSIVE check_shows(_, _)
check_shows(list, failShows) ==
    IF list = <<>> THEN NoTvData
    ELSE LET show == list[Len(list)]
             acc == check_shows(SubSeq(list, 1, Len(list) - 1), failShows)
         IN  IF ShowLookupRaises(show, failShows) THEN acc
             ELSE LET new_eps == check_new_episodes(show,
                                     get_episodes(get_show_id(show.name)), today)
                  IN  IF new_eps # <<>>
                      THEN [acc EXCEPT !.new_episodes = (show.name :> new_eps) @@ @]
                      ELSE [acc EXCEPT !.no_new_episodes = Append(@, show.name)]

\* the loop over movies (lines 252-271)
RECURSIVE check_movies(_, _)
check_movies(list, failMovies) ==
    IF list = <<>> THEN NoMovieData
    ELSE LET movie == list[Len(list)]
             acc == check_movies(SubSeq(list, 1, Len(list) - 1), failMovies)
         IN  IF MovieLookupRaises(movie, failMovies) THEN acc
             ELSE LET status == check_movie_status(
                                    get_movie_details(movie.tmdb_id), today)
                  IN  IF status.status = "released"
                      THEN [acc EXCEPT !.released = Append(@, status)]
                      ELSE IF status.status = "today"
                      THEN [acc EXCEPT !.today = Append(@, status)]
                      ELSE IF status.status = "soon"
                      THEN [acc EXCEPT !.soon = Append(@, status)]
                      ELSE [acc EXCEPT !.future = Append(@, status)]

SmtpOutcomes == {"delivered", "error_before_send", "error_after_send"}

\* a notifier without the "something notable" test
send_combined_email_always(tv, mv, smtp) ==
    IF    ~EMAIL_CONFIG.sender_email \/ ~EMAIL_CONFIG.sender_password
       \/ ~EMAIL_CONFIG.recipient_email
    THEN [out |-> "config_not_set", sent |-> 0]
    ELSE IF smtp = "delivered" THEN [out |-> "email_sent", sent |-> 1]
    ELSE IF smtp = "error_after_send" THEN [out |-> "email_error", sent |-> 1]
    ELSE [out |-> "email_error", sent |-> 0]

\* send_combined_email: what it prints and how many times it reaches
\* server.send_message; smtp is what the mail relay does
send_combined_email(tv, mv, smtp) ==
    IF    ~EMAIL_CONFIG.sender_email \/ ~EMAIL_CONFIG.sender_password
       \/ ~EMAIL_CONFIG.recipient_email
    THEN [out |-> "config_not_set", sent |-> 0]
    ELSE IF tv.new_episodes = <<>> /\ mv.today = <<>> /\ mv.soon = <<>>
    THEN [out |-> "nothing_to_report", sent |-> 0]
    ELSE IF smtp = "delivered" THEN [out |-> "email_sent", sent |-> 1]
    ELSE IF smtp = "error_after_send" THEN [out |-> "email_error", sent |-> 1]
    ELSE [out |-> "email_error", sent |-> 0]

\* what an operation leaves behind for the observer: its name, the message
\* it printed, the show name and menu selection it read, how many numeric
\* prompts parsed, the lookups that raised and the emails transmitted
Ran(op, out, name, choice, parsed) ==
    [op |-> op, out |-> out, name |-> name, choice |-> choice,
     parsed |-> parsed, failShows |-> {}, failMovies |-> {}, sent |-> 0]

ShowNames == {shows[i].name : i \in 1..Len(shows)}

MovieIds == {movies[i].tmdb_id : i \in 1..Len(movies)}

\* the last entry of a non-empty list of new episodes
Latest(new_eps) == new_eps[Len(new_eps)]

\* a check-all that moves the watch position to the newest episode found
check_all_and_mark_watched(failShows, failMovies, smtp) ==
    /\ pc = "menu"
    /\ LET tv == check_shows(shows, failShows)
           mv == check_movies(movies, failMovies)
           mail == send_combined_email(tv, mv, smtp)
       IN  /\ tv_data' = tv
           /\ movie_data' = mv
           /\ shows' = [i \in 1..Len(shows) |->
                          IF shows[i].name \in DOMAIN tv.new_episodes
                          THEN [shows[i] EXCEPT
                                   !.last_season = Latest(tv.new_episodes[shows[i].name]).season,
                                   !.last_episode = Latest(tv.new_episodes[shows[i].name]).number]
                          ELSE shows[i]]
           /\ last' = [Ran("check_all", mail.out, <<>>, 0, 0) EXCEPT
                          !.failShows = failShows, !.failMovies = failMovies,
                          !.sent = mail.sent]
    /\ UNCHANGED <<movies, today, tvmaze, tmdb, EMAIL_CONFIG, pc, result>>

check_all_and_email(failShows, failMovies, smtp) ==
    /\ pc = "menu"
    /\ LET tv == check_shows(shows, failShows)
           mv == check_movies(movies, failMovies)
           mail == send_combined_email(tv, mv, smtp)
       IN  /\ tv_data' = tv
           /\ movie_data' = mv
           /\ last' = [Ran("check_all", mail.out, <<>>, 0, 0) EXCEPT
                          !.failShows = failShows, !.failMovies = failMovies,
                          !.sent = mail.sent]
    /\ UNCHANGED <<shows, movies, today, tvmaze, tmdb, EMAIL_CONFIG, pc, result>>

(***************************************************************************)
(* Management operations of the menu.  Each reads its prompts in the order *)
(* of the code; an operation that returns early never reads the later ones.*)
(***************************************************************************)
NoReport == tv_data' = NoTvData /\ movie_data' = NoMovieData

add_show(rawName, seasonText, episodeText) ==
    /\ pc = "menu"
    /\ LET name == strip(rawName)
           season == int(seasonText)
           episode == int(episodeText)
       IN  IF \E i \in 1..Len(shows) : lower(shows[i].name) = lower(name)
           THEN shows' = shows /\ last' = Ran("add_show", "exists", name, 0, 0)
           ELSE IF ~season.ok
           THEN shows' = shows /\ last' = Ran("add_show", "not_numbers", name, 0, 0)
           ELSE IF ~episode.ok
           THEN shows' = shows /\ last' = Ran("add_show", "not_numbers", name, 0, 1)
           ELSE /\ shows' = Append(shows, [name |-> name,
                                           last_season |-> season.val,
                                           last_episode |-> episode.val])
                /\ last' = Ran("add_show", "added", name, 0, 2)
    /\ NoReport
    /\ UNCHANGED <<movies, today, tvmaze, tmdb, EMAIL_CONFIG, pc, result>>

\* add_movie: search_movie is called outside any try, so when it raises the
\* exception leaves add_movie and main: the process ends with a traceback
add_movie(rawTitle, searchRaises) ==
    /\ pc = "menu"
    /\ LET title == strip(rawTitle)
           found == search_movie(title)
       IN  IF searchRaises
           THEN /\ pc' = "crashed"
                /\ movies' = movies
                /\ last' = Ran("add_movie", "traceback", <<>>, 0, 0)
           ELSE IF found = 0
           THEN /\ pc' = pc
                /\ movies' = movies
                /\ last' = Ran("add_movie", "movie_not_found", <<>>, 0, 0)
           ELSE IF \E i \in 1..Len(movies) : movies[i].tmdb_id = found
           THEN /\ pc' = pc
                /\ movies' = movies
                /\ last' = Ran("add_movie", "already_tracking", <<>>, 0, 0)
           ELSE /\ pc' = pc
                /\ movies' = Append(movies, [title |-> tmdb.details[found].title,
                                             tmdb_id |-> found,
                                             added_date |-> today])
                /\ last' = Ran("add_movie", "movie_added", <<>>, 0, 0)
    /\ NoReport
    /\ UNCHANGED <<shows, today, tvmaze, tmdb, EMAIL_CONFIG, result>>

\* list.pop() without its argument
pop_last(list, index) == SubSeq(list, 1, Len(list) - 1)

\* list.pop(index), index counted from 0: the list without that entry
pop(list, index) ==
    SubSeq(list, 1, index) \o SubSeq(list, index + 2, Len(list))

remove_show(choiceText) ==
    /\ pc = "menu"
    /\ LET choice == int(choiceText)
       IN  IF shows = <<>>
           THEN shows' = shows /\ last' = Ran("remove_show", "no_shows", <<>>, 0, 0)
           ELSE IF ~choice.ok
           THEN shows' = shows
                /\ last' = Ran("remove_show", "invalid_number", <<>>, 0, 0)
           ELSE IF 1 <= choice.val /\ choice.val <= Len(shows)
           THEN shows' = pop(shows, choice.val - 1)
                /\ last' = Ran("remove_show", "removed", <<>>, choice.val, 1)
           ELSE shows' = shows
                /\ last' = Ran("remove_show", "invalid_selection", <<>>, choice.val, 1)
    /\ NoReport
    /\ UNCHANGED <<movies, today, tvmaze, tmdb, EMAIL_CONFIG, pc, result>>

remove_movie(choiceText) ==
    /\ pc = "menu"
    /\ LET choice == int(choiceText)
       IN  IF movies = <<>>
           THEN movies' = movies /\ last' = Ran("remove_movie", "no_movies", <<>>, 0, 0)
           ELSE IF ~choice.ok
           THEN movies' = movies
                /\ last' = Ran("remove_movie", "invalid_number", <<>>, 0, 0)
           ELSE IF 1 <= choice.val /\ choice.val <= Len(movies)
           THEN movies' = pop(movies, choice.val - 1)
                /\ last' = Ran("remove_movie", "removed", <<>>, choice.val, 1)
           ELSE movies' = movies
                /\ last' = Ran("remove_movie", "invalid_selection", <<>>, choice.val, 1)
    /\ NoReport
    /\ UNCHANGED <<shows, today, tvmaze, tmdb, EMAIL_CONFIG, pc, result>>

\* an update that stores the season before it reads the episode
update_show_eager(choiceText, seasonText, episodeText) ==
    /\ pc = "menu"
    /\ LET choice == int(choiceText)
           new_season == int(seasonText)
           new_episode == int(episodeText)
       IN  IF shows = <<>>
           THEN shows' = shows /\ last' = Ran("update_show", "no_shows", <<>>, 0, 0)
           ELSE IF ~choice.ok
           THEN shows' = shows
                /\ last' = Ran("update_show", "invalid_input", <<>>, 0, 0)
           ELSE IF ~(1 <= choice.val /\ choice.val <= Len(shows))
           THEN shows' = shows
                /\ last' = Ran("update_show", "invalid_selection", <<>>, choice.val, 1)
           ELSE IF ~new_season.ok
           THEN shows' = shows
                /\ last' = Ran("update_show", "invalid_input", <<>>, choice.val, 1)
           ELSE IF ~new_episode.ok
           THEN shows' = [shows EXCEPT ![choice.val].last_season = new_season.val]
                /\ last' = Ran("update_show", "invalid_input", <<>>, choice.val, 2)
           ELSE /\ shows' = [shows EXCEPT
                                ![choice.val].last_season = new_season.val,
                                ![choice.val].last_episode = new_episode.val]
                /\ last' = Ran("update_show", "updated", <<>>, choice.val, 3)
    /\ NoReport
    /\ UNCHANGED <<movies, today, tvmaze, tmdb, EMAIL_CONFIG, pc, result>>

update_show(choiceText, seasonText, episodeText) ==
    /\ pc = "menu"
    /\ LET choice == int(choiceText)
           new_season == int(seasonText)
           new_episode == int(episodeText)
       IN  IF shows = <<>>
           THEN shows' = shows /\ last' = Ran("update_show", "no_shows", <<>>, 0, 0)
           ELSE IF ~choice.ok
           THEN shows' = shows
                /\ last' = Ran("update_show", "invalid_input", <<>>, 0, 0)
           ELSE IF ~(1 <= choice.val /\ choice.val <= Len(shows))
           THEN shows' = shows
                /\ last' = Ran("update_show", "invalid_selection", <<>>, choice.val, 1)
           ELSE IF ~new_season.ok
           THEN shows' = shows
                /\ last' = Ran("update_show", "invalid_input", <<>>, choice.val, 1)
           ELSE IF ~new_episode.ok
           THEN shows' = shows
                /\ last' = Ran("update_show", "invalid_input", <<>>, choice.val, 2)
           ELSE /\ shows' = [shows EXCEPT
                                ![choice.val].last_season = new_season.val,
                                ![choice.val].last_episode = new_episode.val]
                /\ last' = Ran("update_show", "updated", <<>>, choice.val, 3)
    /\ NoReport
    /\ UNCHANGED <<movies, today, tvmaze, tmdb, EMAIL_CONFIG, pc, result>>

\* option 7 of the menu
exit_menu ==
    /\ pc = "menu"
    /\ pc' = "exited"
    /\ last' = Ran("exit", "goodbye", <<>>, 0, 0)
    /\ NoReport
    /\ UNCHANGED <<shows, movies, today, tvmaze, tmdb, EMAIL_CONFIG, result>>

\* any other menu input
invalid_option ==
    /\ pc = "menu"
    /\ last' = Ran("menu", "invalid_option", <<>>, 0, 0)
    /\ NoReport
    /\ UNCHANGED <<shows, movies, today, tvmaze, tmdb, EMAIL_CONFIG, pc, result>>

(***************************************************************************)
(* The world of the session: the first day, the remote catalogues, the     *)
(* texts a user types.                                                     *)
(***************************************************************************)
FirstDay == <<2024, 2, 29>>

Episode(s, n, airdate) == [season |-> s, number |-> n, airdate |-> airdate]

TvMazeCatalogue ==
    (<<"a">> :> << Episode(1, 1, <<2024, 2, 28>>),
                   Episode(1, 2, <<2024, 3, 1>>),
                   Episode(2, 1, None) >>)
    @@ (<<"b">> :> << Episode(1, 1, <<2024, 2, 29>>),
                      Episode(1, 2, <<>>) >>)

TmdbCatalogue ==
    [search |-> (<<"d">> :> 1) @@ (<<"d", "e">> :> 1) @@ (<<"e">> :> 2)
                @@ (<<"f">> :> 3),
     details |-> (1 :> [title |-> "D", release_date |-> None])
                 @@ (2 :> [title |-> "E", release_date |-> <<2024, 2, 29>>])
                 @@ (3 :> [title |-> "F", release_date |-> <<2024, 3, 31>>])]

Configured ==
    [sender_email |-> TRUE, sender_password |-> TRUE, recipient_email |-> TRUE]

EmailConfigs ==
    { Configured, [Configured EXCEPT !.sender_password = FALSE] }

NameInputs == { <<"a">>, <<"A">>, <<"b">>, <<" ", "a", " ">> }

NumberInputs == { <<"1">>, <<"-", "1">>, <<"x">> }

ChoiceInputs == { <<"0">>, <<"1">>, <<" ", "2", " ">>, <<"3">>, <<"x">> }

TitleInputs == { <<"d">>, <<"d", "e">>, <<" ", "e">>, <<"z">> }

NoResult == [done |-> FALSE, value |-> <<>>]

Init ==
    /\ shows = <<>>
    /\ movies = <<>>
    /\ today = FirstDay
    /\ tvmaze = TvMazeCatalogue
    /\ tmdb = TmdbCatalogue
    /\ EMAIL_CONFIG \in EmailConfigs
    /\ pc = "menu"
    /\ last = Ran("start", "menu", <<>>, 0, 0)
    /\ tv_data = NoTvData
    /\ movie_data = NoMovieData
    /\ result = NoResult

\* during a session a remote service answers every lookup or none
Next ==
    \/ \E fs \in {{}, ShowNames}, fm \in {{}, MovieIds}, smtp \in SmtpOutcomes :
           check_all_and_email(fs, fm, smtp)
    \/ \E n \in NameInputs, s \in NumberInputs, e \in NumberInputs : add_show(n, s, e)
    \/ \E t \in TitleInputs, raises \in BOOLEAN : add_movie(t, raises)
    \/ \E c \in ChoiceInputs : remove_show(c)
    \/ \E c \in ChoiceInputs : remove_movie(c)
    \/ \E c \in ChoiceInputs, s \in NumberInputs, e \in NumberInputs :
           update_show(c, s, e)
    \/ exit_menu
    \/ invalid_option

Spec == Init /\ [][Next]_vars

(***************************************************************************)
(* The classifiers on their own: the inputs are drawn in the initial       *)
(* state, one call is made, its return value is kept in result.            *)
(***************************************************************************)
BoundedSeq(S, n) == UNION { [1..k -> S] : k \in 0..n }

ClassifierDay == <<2024, 3, 1>>

AirDates == { None, <<>>, <<2023, 12, 31>>, <<2024, 3, 1>>, <<2024, 3, 2>> }

EpisodeInputs ==
    { Episode(s, n, d) : s \in {1, 2, 3}, n \in {5, 6}, d \in AirDates }

WatchPositions == { <<2, 5>>, <<2, 6>> }

InitEpisodes ==
    /\ \E w \in WatchPositions :
           shows = << [name |-> <<"A">>, last_season |-> w[1], last_episode |-> w[2]] >>
    /\ movies = <<>>
    /\ today = ClassifierDay
    /\ \E eps \in BoundedSeq(EpisodeInputs, MaxEps) : tvmaze = (<<"a">> :> eps)
    /\ tmdb = TmdbCatalogue
    /\ EMAIL_CONFIG = Configured
    /\ pc = "classifier"
    /\ last = Ran("start", "menu", <<>>, 0, 0)
    /\ tv_data = NoTvData
    /\ movie_data = NoMovieData
    /\ result = NoResult

call_check_new_episodes ==
    /\ ~result.done
    /\ result' = [done |-> TRUE,
                  value |-> check_new_episodes(shows[1],
                                get_episodes(get_show_id(shows[1].name)), today)]
    /\ UNCHANGED <<shows, movies, today, tvmaze, tmdb, EMAIL_CONFIG, pc, last,
                   tv_data, movie_data>>

SpecEpisodes == InitEpisodes /\ [][call_check_new_episodes]_vars

ReleaseDates ==
    { None, <<>> } \cup
    { <<y, m, d>> : y \in FirstYear..LastYear, m \in 1..12, d \in 1..31 }

MovieDays == { <<2023, 12, 31>>, <<2024, 2, 29>>, <<2024, 12, 1>> }

\* strptime raises for a day the month does not have; such strings are not drawn
IsDate(d) == d # None /\ d # <<>> /\ d[3] <= DaysInMonth(d[1], d[2])

InitMovie ==
    /\ shows = <<>>
    /\ movies = << [title |-> "M", tmdb_id |-> 1, added_date |-> FirstDay] >>
    /\ today \in MovieDays
    /\ tvmaze = TvMazeCatalogue
    /\ \E rd \in ReleaseDates :
           /\ rd \in {None, <<>>} \/ IsDate(rd)
           /\ tmdb = [search |-> (<<"m">> :> 1),
                      details |-> (1 :> [title |-> "M", release_date |-> rd])]
    /\ EMAIL_CONFIG = Configured
    /\ pc = "classifier"
    /\ last = Ran("start", "menu", <<>>, 0, 0)
    /\ tv_data = NoTvData
    /\ movie_data = NoMovieData
    /\ result = NoResult

call_check_movie_status ==
    /\ ~result.done
    /\ result' = [done |-> TRUE,
                  value |-> check_movie_status(
                                get_movie_details(movies[1].tmdb_id), today)]
    /\ UNCHANGED <<shows, movies, today, tvmaze, tmdb, EMAIL_CONFIG, pc, last,
                   tv_data, movie_data>>

SpecMovie == InitMovie /\ [][call_check_movie_status]_vars

(***************************************************************************)
(* One check-all run over a store drawn in the initial state, with every   *)
(* combination of lookups that raise.                                      *)
(***************************************************************************)
StoredShowRecords ==
    { [name |-> n, last_season |-> w[1], last_episode |-> w[2]] :
          n \in { <<"A">>, <<"b">> }, w \in { <<0, 0>>, <<1, 1>> } }

StoredShows ==
    { l \in BoundedSeq(StoredShowRecords, 2) :
          \A i, j \in 1..Len(l) : i # j => lower(l[i].name) # lower(l[j].name) }

StoredMovieRecords ==
    { [title |-> TmdbCatalogue.details[id].title, tmdb_id |-> id,
       added_date |-> FirstDay] : id \in DOMAIN TmdbCatalogue.details }

StoredMovies ==
    { l \in BoundedSeq(StoredMovieRecords, MaxMovies) :
          \A i, j \in 1..Len(l) : i # j => l[i].tmdb_id # l[j].tmdb_id }

InitCheckAll ==
    /\ shows \in StoredShows
    /\ movies \in StoredMovies
    /\ today \in { FirstDay, NextDay(FirstDay) }
    /\ tvmaze = TvMazeCatalogue
    /\ tmdb = TmdbCatalogue
    /\ EMAIL_CONFIG \in EmailConfigs
    /\ pc = "menu"
    /\ last = Ran("start", "menu", <<>>, 0, 0)
    /\ tv_data = NoTvData
    /\ movie_data = NoMovieData
    /\ result = NoResult

run_check_all ==
    /\ last.op = "start"
    /\ \E fs \in SUBSET ShowNames, fm \in SUBSET MovieIds, smtp \in SmtpOutcomes :
           check_all_and_email(fs, fm, smtp)

SpecCheckAll == InitCheckAll /\ [][run_check_all]_vars

(***************************************************************************)
(* Dates compared and counted without the ordinal arithmetic above.        *)
(***************************************************************************)
DateLE(a, b) ==
    \/ a[1] < b[1]
    \/ a[1] = b[1] /\ a[2] < b[2]
    \/ a[1] = b[1] /\ a[2] = b[2] /\ a[3] <= b[3]

\* the number of midnights from a to b, for a on or before b, month by month
RECURSIVE DaysFromTo(_, _)
DaysFromTo(a, b) ==
    IF a[1] = b[1] /\ a[2] = b[2] THEN b[3] - a[3]
    ELSE (DaysInMonth(a[1], a[2]) - a[3] + 1)
         + DaysFromTo(IF a[2] < 12 THEN <<a[1], a[2] + 1, 1>> ELSE <<a[1] + 1, 1, 1>>, b)

DaysUntil(release, day) ==
    IF DateLE(day, release) THEN DaysFromTo(day, release)
    ELSE 0 - DaysFromTo(release, day)

(***************************************************************************)
(* C1.  check_new_episodes returns, in the gateway's order, exactly the    *)
(* episodes that are aired (an air date on or before the evaluation date)  *)
(* and whose (season, number) is strictly greater than the watch position  *)
(* in season-major lexicographic order.  An episode without air date, with *)
(* a future air date, or equal to the watch position is never returned.    *)
(***************************************************************************)
IsNewPerSpec(ep, show, day) ==
    /\ ep.airdate # None
    /\ ep.airdate # <<>>
    /\ DateLE(ep.airdate, day)
    /\ \/ ep.season > show.last_season
       \/ ep.season = show.last_season /\ ep.number > show.last_episode

C1_NewEpisodes ==
    result.done =>
        LET show == shows[1]
            eps == tvmaze[<<"a">>]
            Wanted(ep) == IsNewPerSpec(ep, show, today)
        IN  /\ result.value = SelectSeq(eps, Wanted)
            /\ \A i \in 1..Len(result.value) :
                   LET ep == result.value[i]
                   IN  /\ ep.airdate \notin {None, <<>>, <<2024, 3, 2>>}
                       /\ <<ep.season, ep.number>>
                              # <<show.last_season, show.last_episode>>

C1_Witness ==
    /\ result.done
    /\ Len(tvmaze[<<"a">>]) = 2
    /\ Len(result.value) = 1
    /\ shows[1].last_season = 2 /\ shows[1].last_episode = 5
    /\ tvmaze[<<"a">>][1] = Episode(2, 5, <<2024, 3, 1>>)
    /\ result.value[1] = Episode(2, 6, <<2024, 3, 1>>)

(***************************************************************************)
(* C2.  check_movie_status depends only on days_until = release_date -     *)
(* today in whole days: released with days_ago = |days_until| below 0,     *)
(* today at 0, soon with days_until from 1 to 30, future with days_until   *)
(* above 30, unknown without a release date.                               *)
(***************************************************************************)
C2_MovieStatus ==
    result.done =>
        LET release == tmdb.details[1].release_date
            status == result.value
        IN  IF release = None \/ release = <<>>
            THEN status.status = "unknown"
            ELSE LET days_until == DaysUntil(release, today)
                 IN  /\ days_until < 0 =>
                            status.status = "released" /\ status.days_ago = 0 - days_until
                     /\ days_until = 0 => status.status = "today"
                     /\ (0 < days_until /\ days_until <= 30) =>
                            status.status = "soon" /\ status.days_until = days_until
                     /\ days_until > 30 =>
                            status.status = "future" /\ status.days_until = days_until

C2_Witness ==
    /\ result.done
    /\ today = <<2024, 2, 29>>
    /\ tmdb.details[1].release_date = <<2024, 3, 30>>
    /\ result.value.status = "soon"
    /\ result.value.days_until = 30

(***************************************************************************)
(* What the spec says of a tracked show or movie, stated on the remote     *)
(* data and the date, not on the classifiers of the model.                 *)
(***************************************************************************)
HasNewEpisode(show) ==
    /\ lower(show.name) \in DOMAIN tvmaze
    /\ \E i \in 1..Len(tvmaze[lower(show.name)]) :
           IsNewPerSpec(tvmaze[lower(show.name)][i], show, today)

\* the bucket of check-all a movie belongs to; a movie without release date
\* is kept with the future ones
Bucket(movie) ==
    LET release == tmdb.details[movie.tmdb_id].release_date
    IN  IF release = None \/ release = <<>> THEN "future"
        ELSE LET days_until == DaysUntil(release, today)
             IN  IF days_until < 0 THEN "released"
                 ELSE IF days_until = 0 THEN "today"
                 ELSE IF days_until <= 30 THEN "soon"
                 ELSE "future"

Titles(list) == [i \in 1..Len(list) |-> list[i].title]

Names(list) == [i \in 1..Len(list) |-> list[i].name]

(***************************************************************************)
(* C3.  A check-all run transmits at most one email, and none when no      *)
(* tracked show has a new episode and no tracked movie is released today   *)
(* or within 30 days; none either when every lookup failed.                *)
(***************************************************************************)
C3_AtMostOneEmail ==
    last.op = "check_all" =>
        /\ last.sent \in {0, 1}
        /\ ( /\ \A i \in 1..Len(shows) : ~HasNewEpisode(shows[i])
             /\ \A i \in 1..Len(movies) : Bucket(movies[i]) \notin {"today", "soon"} )
           => last.sent = 0
        /\ (ShowNames \subseteq last.failShows /\ MovieIds \subseteq last.failMovies)
           => last.sent = 0

C3_Witness ==
    /\ last.op = "check_all"
    /\ EMAIL_CONFIG = Configured
    /\ last.failShows = {} /\ last.failMovies = {}
    /\ Len(shows) = 1 /\ Len(movies) = 2
    /\ tv_data.no_new_episodes = Names(shows)
    /\ Len(movie_data.released) = 1 /\ Len(movie_data.future) = 1
    /\ last.out = "nothing_to_report"
    /\ last.sent = 0

(***************************************************************************)
(* C4.  In check-all a lookup that raises for one show or movie leaves the *)
(* others checked in list order and reported: the failed one is in no      *)
(* bucket, every other one is in the bucket of its own result.             *)
(***************************************************************************)
C4_FailureIsolated ==
    last.op = "check_all" =>
        LET ShowOk(show) == show.name \notin last.failShows
            NoNew(show) == ShowOk(show) /\ ~HasNewEpisode(show)
            MovieOk(movie) == movie.tmdb_id \notin last.failMovies
            In(b) == LET Hit(movie) == MovieOk(movie) /\ Bucket(movie) = b
                     IN  Titles(SelectSeq(movies, Hit))
        IN  /\ \A i \in 1..Len(shows) :
                   LET show == shows[i]
                       Wanted(ep) == IsNewPerSpec(ep, show, today)
                   IN  IF ShowOk(show) /\ HasNewEpisode(show)
                       THEN /\ show.name \in DOMAIN tv_data.new_episodes
                            /\ tv_data.new_episodes[show.name]
                                   = SelectSeq(tvmaze[lower(show.name)], Wanted)
                       ELSE show.name \notin DOMAIN tv_data.new_episodes
            /\ tv_data.no_new_episodes = Names(SelectSeq(shows, NoNew))
            /\ Titles(movie_data.released) = In("released")
            /\ Titles(movie_data.today) = In("today")
            /\ Titles(movie_data.soon) = In("soon")
            /\ Titles(movie_data.future) = In("future")

C4_Witness ==
    /\ last.op = "check_all"
    /\ Len(shows) = 2 /\ Len(movies) = 2
    /\ last.failShows = {shows[1].name}
    /\ last.failMovies = {movies[1].tmdb_id}
    /\ DOMAIN tv_data.new_episodes = {shows[2].name}
    /\ tv_data.no_new_episodes = <<>>
    /\ Titles(movie_data.soon) = <<movies[2].title>>
    /\ movie_data.released = <<>> /\ movie_data.today = <<>> /\ movie_data.future = <<>>
    /\ Bucket(movies[1]) = "released"

(***************************************************************************)
(* C5.  No two tracked shows have names that are equal ignoring case, and  *)
(* add-show with a name that differs at most in case from a tracked one is *)
(* rejected and leaves the stored shows as they were.                      *)
(***************************************************************************)
SameLetter(c, d) ==
    c = d \/ {c, d} \in { {"a", "A"}, {"b", "B"}, {"c", "C"} }

EqualIgnoringCase(s, t) ==
    Len(s) = Len(t) /\ \A i \in 1..Len(s) : SameLetter(s[i], t[i])

NamesDifferBeyondCase ==
    \A i, j \in 1..Len(shows) :
        i # j => ~EqualIgnoringCase(shows[i].name, shows[j].name)

C5_ShowNamesUnique ==
    /\ []NamesDifferBeyondCase
    /\ [][ ( /\ last'.op = "add_show"
             /\ \E i \in 1..Len(shows) : EqualIgnoringCase(shows[i].name, last'.name) )
           => (shows' = shows /\ last'.out = "exists") ]_vars

C5_Witness ==
    /\ last.op = "add_show"
    /\ last.out = "exists"
    /\ Len(shows) = 2
    /\ last.name \notin ShowNames
    /\ \E i \in 1..Len(shows) : EqualIgnoringCase(shows[i].name, last.name)

(***************************************************************************)
(* C6.  Every stored show has last_season >= 0 and last_episode >= 0.      *)
(***************************************************************************)
C6_PositionsNonNegative ==
    \A i \in 1..Len(shows) :
        shows[i].last_season >= 0 /\ shows[i].last_episode >= 0

(***************************************************************************)
(* C7.  When a numeric prompt of add-show, remove-show, remove-movie or    *)
(* update-show gets text that is no number, the operation aborts and the   *)
(* stored shows and movies are what they were: nothing partial is saved.   *)
(***************************************************************************)
C7_BadNumberChangesNothing ==
    [][ ( /\ last'.op \in {"add_show", "remove_show", "remove_movie", "update_show"}
          /\ last'.out \in {"not_numbers", "invalid_number", "invalid_input"} )
        => (shows' = shows /\ movies' = movies) ]_vars

C7_Witness ==
    /\ last.op = "update_show"
    /\ last.out = "invalid_input"
    /\ last.choice = 2
    /\ last.parsed = 2
    /\ Len(shows) = 2

(***************************************************************************)
(* C8.  A gateway failure in check-all or add-movie is caught: the process *)
(* does not terminate and the menu keeps accepting commands.               *)
(***************************************************************************)
C8_GatewayFailureNotFatal == pc \in {"menu", "exited"}

(***************************************************************************)
(* C9.  remove-show and remove-movie with a selection k in 1..n store the  *)
(* list without its k-th entry, the others unchanged and in order; with a  *)
(* selection outside 1..n they store nothing new.                          *)
(***************************************************************************)
Deleted(before, after, k) ==
    /\ Len(after) = Len(before) - 1
    /\ \A i \in 1..Len(after) : after[i] = IF i < k THEN before[i] ELSE before[i + 1]

C10_OnlyUpdateMovesPosition ==
    [][ /\ last'.op = "check_all" => (shows' = shows /\ movies' = movies)
        /\ last'.op # "update_show" =>
               \A i \in 1..Len(shows), j \in 1..Len(shows') :
                   shows[i].name = shows'[j].name =>
                       /\ shows'[j].last_season = shows[i].last_season
                       /\ shows'[j].last_episode = shows[i].last_episode
        /\ ( /\ last.op = "check_all" /\ last'.op = "check_all"
             /\ last'.failShows = last.failShows
             /\ last'.failMovies = last.failMovies
             /\ today' = today /\ tvmaze' = tvmaze /\ tmdb' = tmdb )
           => (tv_data' = tv_data /\ movie_data' = movie_data) ]_vars

C10_Witness ==
    /\ last.op = "check_all"
    /\ last.out = "email_error"
    /\ Len(shows) = 2
    /\ DOMAIN tv_data.new_episodes = {shows[2].name}
    /\ tv_data.no_new_episodes = <<shows[1].name>>

====
